---- MODULE Spec2Model ----
(***************************************************************************)
(* A model of server.js, the read-only ZDA Funding Wallet API:             *)
(*   - the middleware chain (cors, rate limiter, X-API-Version),           *)
(*   - GET /api/v1/cards          (count, page and stage-funding queries), *)
(*   - GET /api/v1/cards/:id      (detail, with wallet enrichment),        *)
(*   - fetchAddressData / fetchWalletInfo (the upstream explorer lookups). *)
(*                                                                         *)
(* JavaScript values are represented as follows.                           *)
(*   - a number used for pagination is a record [nan, v], v an integer;    *)
(*   - a number that is an amount is a record [nan, e8], worth e8 * 10^-8  *)
(*     (binary floating point rounding is not represented);                *)
(*   - text that the code parses or formats is a sequence of one-character *)
(*     strings; opaque text is a string;                                   *)
(*   - an object is a function from its keys; a missing key is undefined.  *)
(***************************************************************************)
EXTENDS Integers, Sequences, FiniteSets, TLC

VARIABLES
    cards,                \* the cards table: id -> row, for the ids present
    card_stage_funding,   \* the card_stage_funding table: a sequence of rows
    hits,                 \* the rate limiter's store: client -> requests counted
    req,                  \* the request in flight
    pc,                   \* where the request in flight is
    res,                  \* the response: [status, headers, kind, body]
    limit, offset,        \* GET /cards: locals
    totalRows, totalPages,
    result,               \* GET /cards: result.rows of the page query
    card,                 \* GET /cards/:id: result.rows[0]
    addresses,            \* fetchWalletInfo: its argument
    idx,                  \* fetchWalletInfo: position of the for loop
    results,              \* fetchWalletInfo: results
    total_balance, total_received, total_sent,
    sqlLog,               \* history: the queries handed to pool.query
    served,               \* history: the upstream responses, one per lookup
    seenFunding,          \* history: card_stage_funding as the third query read it
    wroteSinceCount       \* history: cards was written after the count query

dbVars     == <<cards, card_stage_funding>>
listVars   == <<limit, offset, totalRows, totalPages, result>>
walletVars == <<addresses, idx, results, total_balance, total_received, total_sent>>
histVars   == <<sqlLog, served, seenFunding, wroteSinceCount>>
vars       == <<cards, card_stage_funding, hits, req, pc, res, limit, offset,
                totalRows, totalPages, result, card, addresses, idx, results,
                total_balance, total_received, total_sent, sqlLog, served,
                seenFunding, wroteSinceCount>>

----------------------------------------------------------------------------
(* Bounds of the model *)

MaxCards == 3      \* card ids are 1..MaxCards
MaxAddrs == 2      \* longest address list handed to fetchWalletInfo directly
MaxFunding == 2    \* most rows of card_stage_funding

(* Constants of the program *)

E8 == 100000000    \* info.balance / 1e8
TxLimit == 10      \* transactions.slice(0, 10)

----------------------------------------------------------------------------
(* JavaScript numbers *)

NaN == [nan |-> TRUE, v |-> 0]
Num(n) == [nan |-> FALSE, v |-> n]

NaNAmount == [nan |-> TRUE, e8 |-> 0]
Amount(n) == [nan |-> FALSE, e8 |-> n]

\* a + b on amounts
AddAmount(a, b) ==
    IF a.nan \/ b.nan THEN NaNAmount ELSE Amount(a.e8 + b.e8)

Undefined == "<undefined>"
Null == "<null>"

Min(a, b) == IF a <= b THEN a ELSE b

\* a falsy string-valued operand of ||
Falsy(x) == x \in {Undefined, Null, ""}

----------------------------------------------------------------------------
(* Text: a sequence of one-character strings *)

DigitChars == <<"0", "1", "2", "3", "4", "5", "6", "7", "8", "9">>

IsDigit(c) == \E d \in 1..10 : DigitChars[d] = c
DigitValue(c) == (CHOOSE d \in 1..10 : DigitChars[d] = c) - 1

\* the text of a natural number, as String(n) gives it
RECURSIVE NatText(_)
NatText(n) ==
    IF n < 10 THEN <<DigitChars[n + 1]>>
    ELSE Append(NatText(n \div 10), DigitChars[(n % 10) + 1])

\* n as exactly k digits, zero padded
RECURSIVE Padded(_, _)
Padded(n, k) ==
    IF k = 0 THEN <<>> ELSE Append(Padded(n \div 10, k - 1), DigitChars[(n % 10) + 1])

\* leading white space is skipped by parseInt and parseFloat
RECURSIVE SkipSpace(_)
SkipSpace(t) == IF t # <<>> /\ t[1] = " " THEN SkipSpace(Tail(t)) ELSE t

\* the longest prefix of t made of digits
RECURSIVE LeadingDigits(_)
LeadingDigits(t) ==
    IF t # <<>> /\ IsDigit(t[1]) THEN <<t[1]>> \o LeadingDigits(Tail(t)) ELSE <<>>

RECURSIVE DigitsValue(_)
DigitsValue(ds) ==
    IF ds = <<>> THEN 0
    ELSE 10 * DigitsValue(SubSeq(ds, 1, Len(ds) - 1)) + DigitValue(ds[Len(ds)])

Signed(t) == t # <<>> /\ t[1] \in {"-", "+"}
Unsigned(t) == IF Signed(t) THEN Tail(t) ELSE t
SignOf(t) == IF t # <<>> /\ t[1] = "-" THEN -1 ELSE 1

\* parseInt(t, 10): the digits that follow the white space and the sign, NaN
\* when there is none
parseInt(t) ==
    LET s == SkipSpace(t)
        ds == LeadingDigits(Unsigned(s))
    IN IF ds = <<>> THEN NaN ELSE Num(SignOf(s) * DigitsValue(ds))

\* parseFloat(t) for decimal text: integer digits, then "." and fraction
\* digits; the value in units of 10^-8 (digits past the eighth are dropped)
parseFloat(t) ==
    LET s == SkipSpace(t)
        u == Unsigned(s)
        ints == LeadingDigits(u)
        rest == SubSeq(u, Len(ints) + 1, Len(u))
        frac == IF rest # <<>> /\ rest[1] = "." THEN LeadingDigits(Tail(rest)) ELSE <<>>
        frac8 == [k \in 1..8 |-> IF k <= Len(frac) THEN frac[k] ELSE "0"]
    IN IF ints = <<>> /\ frac = <<>> THEN NaNAmount
       ELSE Amount(SignOf(s) * (DigitsValue(ints) * E8 + DigitsValue(frac8)))

NaNText == <<"N", "a", "N">>
NullText == <<"<null>">>

\* x.toFixed(8)
ToFixed8(a) ==
    IF a.nan THEN NaNText
    ELSE LET abs == IF a.e8 < 0 THEN -a.e8 ELSE a.e8 IN
         (IF a.e8 < 0 THEN <<"-">> ELSE <<>>)
         \o NatText(abs \div E8) \o <<".">> \o Padded(abs % E8, 8)

----------------------------------------------------------------------------
(* The upstream explorer: what fetch(url) can come back with for an address.
   A response is [network, ok, status, parses, body]; body is the parsed JSON,
   an object that may lack any of its keys. *)

Addresses == {"t1a", "t1b"}

Txs(n) == [k \in 1..n |-> k]

FullInfoA == [balance |-> 150000000, received |-> 250000000, sent |-> 100000000]
FullInfoB == [balance |-> 1, received |-> 3, sent |-> 2]

Without(obj, key) == [k \in DOMAIN obj \ {key} |-> obj[k]]

Infos == {FullInfoA, FullInfoB,
          Without(FullInfoA, "balance"),
          Without(FullInfoA, "received"),
          Without(FullInfoA, "sent")}

HttpResponse(ok, status, parses, body) ==
    [network |-> TRUE, ok |-> ok, status |-> status, parses |-> parses, body |-> body]

Bodies(addr) ==
      { <<>> }                                              \* no data
    \cup { [data |-> <<>>] }                                \* no entry at all
    \cup { [data |-> (o :> [address |-> FullInfoA, transactions |-> Txs(1)])]
             : o \in Addresses \ {addr} }                   \* another address's entry
    \cup { [data |-> (addr :> [transactions |-> Txs(1)])] } \* no address object
    \cup { [data |-> (addr :> [address |-> FullInfoA])] }   \* no transaction list
    \cup { [data |-> (addr :> [address |-> i,
                               transactions |-> Txs(IF i = FullInfoB THEN 0 ELSE TxLimit + 2)])]
             : i \in Infos }

UpstreamResponses(addr) ==
      { [network |-> FALSE, ok |-> FALSE, status |-> 0, parses |-> FALSE, body |-> <<>>] }
    \cup { HttpResponse(FALSE, 500, TRUE, <<>>) }
    \cup { HttpResponse(TRUE, 200, FALSE, <<>>) }
    \cup { HttpResponse(TRUE, 200, TRUE, b) : b \in Bodies(addr) }

----------------------------------------------------------------------------
(* fetchAddressData and the body of fetchWalletInfo's loop.
   An outcome is [threw, message, value]. *)

Thrown(msg) == [threw |-> TRUE, message |-> msg, value |-> <<>>]
Returned(v) == [threw |-> FALSE, message |-> "", value |-> v]

\* await fetch(url); if (!response.ok) throw ...; return await response.json()
fetchAddressData(r) ==
    IF ~r.network THEN Thrown("fetch failed")
    ELSE IF ~r.ok THEN Thrown("HTTP error " \o ToString(r.status))
    ELSE IF ~r.parses THEN Thrown("Unexpected token in JSON")
    ELSE Returned(r.body)

\* obj[key], undefined when the key is missing (obj is an object)
Has(obj, key) == key \in DOMAIN obj

\* info.balance / 1e8: a missing field is undefined, and undefined / 1e8 is NaN
DivE8(info, key) ==
    IF Has(info, key) THEN Amount(info[key]) ELSE NaNAmount

\* transactions.slice(0, 10)
Slice10(txs) == SubSeq(txs, 1, Min(Len(txs), TxLimit))

\* The try block of the loop, lines 20-26: the values of the locals, or the throw
TryLookup(addr, r) ==
    LET fetched == fetchAddressData(r) IN
    IF fetched.threw THEN fetched
    ELSE LET data == fetched.value IN
      IF ~Has(data, "data")
        THEN Thrown("Cannot read properties of undefined (reading the address)")
      ELSE IF ~Has(data.data, addr)
        THEN Thrown("Cannot read properties of undefined (reading 'address')")
      ELSE IF ~Has(data.data[addr], "address")
        THEN Thrown("Cannot read properties of undefined (reading 'balance')")
      ELSE IF ~Has(data.data[addr], "transactions")
        THEN Thrown("Cannot read properties of undefined (reading 'slice')")
      ELSE LET info == data.data[addr].address IN
        Returned([balance      |-> DivE8(info, "balance"),
                  received     |-> DivE8(info, "received"),
                  sent         |-> DivE8(info, "sent"),
                  transactions |-> Slice10(data.data[addr].transactions)])

\* results.push({address, balance, total_received, total_sent, transactions})
DataEntry(addr, v) ==
    [address |-> addr, balance |-> v.balance, total_received |-> v.received,
     total_sent |-> v.sent, transactions |-> v.transactions]

\* results.push({address, error: error.message})
ErrorEntry(addr, msg) == [address |-> addr, error |-> msg]

\* the totals after one iteration: lines 28-30 run only when nothing threw
NextTotal(total, out, field) ==
    IF out.threw THEN total ELSE AddAmount(total, out.value[field])

\* the entry pushed by one iteration: line 32 or line 40
NextEntry(addr, out) ==
    IF out.threw THEN ErrorEntry(addr, out.message) ELSE DataEntry(addr, out.value)

\* NextIdx with a fault: a lookup that throws ends the loop, as a try around
\* the whole loop would
NextIdxBreak(i, out) == IF out.threw THEN Len(addresses) + 1 ELSE i + 1

\* the for loop goes on to the next address whatever the iteration did
NextIdx(i, out) == i + 1

\* return { addresses: results, totals: {...} }
WalletInfo == [addresses |-> results,
               totals |-> [balance |-> total_balance,
                           total_received |-> total_received,
                           total_sent |-> total_sent]]

----------------------------------------------------------------------------
(* The database.  Rows of cards come from a catalogue: the columns of the card
   with a given id are fixed, its presence and its visibility are not. *)

CardIds == 1..MaxCards

NullArr == [null |-> TRUE, v |-> <<>>]
Arr(seq) == [null |-> FALSE, v |-> seq]

AddrOf(k) == IF k % 2 = 1 THEN "t1a" ELSE "t1b"

\* card 1 has no wallet_addresses, card 2 an empty list, an odd card two
\* addresses and an even card one
WalletOf(id) ==
    IF id = 1 THEN NullArr
    ELSE IF id = 2 THEN Arr(<<>>)
    ELSE Arr([k \in 1..(1 + (id % 2)) |-> AddrOf(k)])

PriorityOf(id) == IF id % 2 = 1 THEN "HIGH" ELSE "LOW"
StatusOf(id) == IF id = 1 THEN "COMPLETED" ELSE "IN PROGRESS"
StageOf(id) == IF id <= 2 THEN "DESIGN" ELSE "DEVELOP"
TagsOf(id) == IF id = 1 THEN {"privacy"} ELSE {"wallet", "communication"}

Visibilities == {"PUBLIC", "PRIVATE"}

CardRow(id, vis) ==
    [id |-> id, visibility |-> vis, title |-> ToString(id),
     priority |-> PriorityOf(id), status |-> StatusOf(id), stage |-> StageOf(id),
     tags |-> TagsOf(id), last_updated |-> id, date |-> 100 - id,
     percent_funded |-> id % 2,
     wallet_addresses |-> WalletOf(id)]

NoCard == CardRow(0, "PRIVATE")

\* The external writers act while a request is in flight or none has been
\* made; a write that follows a response is the same as one that precedes the
\* next request's first query.

\* An external writer inserts a card
InsertCard(id, vis) ==
    /\ pc # "done"
    /\ id \notin DOMAIN cards
    /\ cards' = (id :> CardRow(id, vis)) @@ cards
    /\ wroteSinceCount' = (wroteSinceCount \/ pc = "list_page")
    /\ UNCHANGED <<card_stage_funding, hits, req, pc, res, listVars, card,
                   walletVars, sqlLog, served, seenFunding>>

\* An external writer deletes a card
DeleteCard(id) ==
    /\ pc # "done"
    /\ id \in DOMAIN cards
    /\ cards' = [k \in DOMAIN cards \ {id} |-> cards[k]]
    /\ wroteSinceCount' = (wroteSinceCount \/ pc = "list_page")
    /\ UNCHANGED <<card_stage_funding, hits, req, pc, res, listVars, card,
                   walletVars, sqlLog, served, seenFunding>>

----------------------------------------------------------------------------
(* Requests and responses *)

NoQuery == <<>>

Request(client, method, route, id, query) ==
    [client |-> client, method |-> method, route |-> route, id |-> id, query |-> query]

NoRequest == Request("", "", "none", 0, NoQuery)

XApiVersion == "X-API-Version: v1"
CacheControl == "Cache-Control: public, max-age=30"
AllowOrigin == "Access-Control-Allow-Origin: *"

NoResponse == [status |-> 0, headers |-> {}, kind |-> "none", body |-> <<>>]

\* res.set(name, value)
SetHeader(r, h) == [r EXCEPT !.headers = @ \cup {h}]

\* res.status(s).json(body); kind says which shape body has
Json(r, status, kind, body) ==
    [r EXCEPT !.status = status, !.kind = kind, !.body = body]

InternalError(r) == Json(r, 500, "error", [error |-> "Internal server error"])
NotFound(r) == Json(r, 404, "error", [error |-> "Not Found"])

\* the response as cors, the limiter and the version middleware leave it for
\* a request they pass on to the routes
PassedOn == SetHeader(SetHeader(NoResponse, AllowOrigin), XApiVersion)

\* the locals of the handlers, as a new request finds them
FreshHistory ==
    /\ sqlLog' = <<>>
    /\ served' = <<>>
    /\ seenFunding' = <<>>
    /\ wroteSinceCount' = FALSE

FreshList ==
    /\ limit' = Num(0)
    /\ offset' = Num(0)
    /\ totalRows' = Num(0)
    /\ totalPages' = Num(0)
    /\ result' = <<>>

FreshWallet ==
    /\ addresses' = <<>>
    /\ idx' = 1
    /\ results' = <<>>
    /\ total_balance' = Amount(0)
    /\ total_received' = Amount(0)
    /\ total_sent' = Amount(0)

FreshLocals ==
    /\ FreshList
    /\ card' = NoCard
    /\ FreshWallet
    /\ FreshHistory

Idle == pc = "idle"

\* The response is sent and the request is over: its locals are gone
EndRequest ==
    /\ pc = "done"
    /\ pc' = "idle"
    /\ req' = NoRequest
    /\ res' = NoResponse
    /\ FreshLocals
    /\ UNCHANGED <<dbVars, hits>>

----------------------------------------------------------------------------
(* fetchWalletInfo, lines 12-55 *)

\* let total_balance = 0; ...: the call starts the loop at the first address
EnterWallet(addrs) ==
    /\ addresses' = addrs
    /\ idx' = 1
    /\ results' = <<>>
    /\ total_balance' = Amount(0)
    /\ total_received' = Amount(0)
    /\ total_sent' = Amount(0)

\* A direct call of fetchWalletInfo(addrs)
CallFetchWalletInfo(addrs) ==
    /\ Idle
    /\ FreshList
    /\ card' = NoCard
    /\ FreshHistory
    /\ EnterWallet(addrs)
    /\ req' = Request("", "", "call", 0, NoQuery)
    /\ res' = NoResponse
    /\ pc' = "wallet_loop"
    /\ UNCHANGED <<dbVars, hits>>

\* One iteration of for (const addr of addresses), the upstream answering r
Lookup ==
    /\ pc = "wallet_loop"
    /\ idx <= Len(addresses)
    /\ \E r \in UpstreamResponses(addresses[idx]) :
         LET addr == addresses[idx]
             out == TryLookup(addr, r)
         IN /\ total_balance' = NextTotal(total_balance, out, "balance")
            /\ total_received' = NextTotal(total_received, out, "received")
            /\ total_sent' = NextTotal(total_sent, out, "sent")
            /\ results' = Append(results, NextEntry(addr, out))
            /\ idx' = NextIdx(idx, out)
            /\ served' = Append(served, r)
    /\ UNCHANGED <<dbVars, hits, req, pc, res, listVars, card, addresses,
                   sqlLog, seenFunding, wroteSinceCount>>

\* The loop is over: the direct caller gets { addresses, totals }
ReturnWalletInfo ==
    /\ pc = "wallet_loop"
    /\ idx > Len(addresses)
    /\ req.route = "call"
    /\ res' = Json(res, 0, "wallet_info", WalletInfo)
    /\ pc' = "done"
    /\ UNCHANGED <<dbVars, hits, req, listVars, card, walletVars, histVars>>

----------------------------------------------------------------------------
(* GET /api/v1/cards/:id, lines 430-461 *)

\* a value bound to a placeholder: text or a number
TextParam(t) == [kind |-> "text", text |-> t, num |-> Num(0)]
NumParam(n) == [kind |-> "number", text |-> "", num |-> n]

\* SelectById with a fault: the query without AND visibility = 'PUBLIC'
SelectByIdAnyVisibility(table, id) ==
    IF id \in DOMAIN table THEN <<table[id]>> ELSE <<>>

\* SELECT * FROM cards WHERE id = $1 AND visibility = 'PUBLIC'
SelectById(table, id) ==
    IF id \in DOMAIN table /\ table[id].visibility = "PUBLIC"
    THEN <<table[id]>> ELSE <<>>

DetailSql == "SELECT * FROM cards WHERE id = $1 AND visibility = 'PUBLIC'"

\* card.wallet_addresses && card.wallet_addresses.length > 0
HasWallets(c) == ~c.wallet_addresses.null /\ Len(c.wallet_addresses.v) > 0

\* { ...card, key: value }
Spread(c, key, value) == (key :> value) @@ c

\* What the handler does with the query's outcome, up to its first await of
\* fetchWalletInfo: [pc, res, card]
DetailStep(table, id, dbOk, r) ==
    IF ~dbOk THEN [pc |-> "done", res |-> InternalError(r), card |-> NoCard]
    ELSE LET rows == SelectById(table, id) IN
      IF Len(rows) = 0
        THEN [pc |-> "done", res |-> NotFound(r), card |-> NoCard]
      ELSE IF HasWallets(rows[1])
        THEN [pc |-> "wallet_loop", res |-> r, card |-> rows[1]]
      ELSE [pc |-> "done", res |-> Json(r, 200, "card", rows[1]), card |-> rows[1]]

\* app.get('/api/v1/cards/:id', ...): the handler starts on response r
EnterDetail(r) ==
    /\ res' = SetHeader(r, CacheControl)
    /\ pc' = "detail_query"

\* A request for /api/v1/cards/:id that the middleware chain passed on
GetCard(id) ==
    /\ Idle
    /\ FreshLocals
    /\ req' = Request("c1", "GET", "card", id, NoQuery)
    /\ EnterDetail(PassedOn)
    /\ UNCHANGED <<dbVars, hits>>

\* await pool.query(...) and what follows it
DetailQuery ==
    /\ pc = "detail_query"
    /\ \E dbOk \in BOOLEAN :
         LET step == DetailStep(cards, req.id, dbOk, res) IN
         /\ pc' = step.pc
         /\ res' = step.res
         /\ card' = step.card
         /\ IF step.pc = "wallet_loop"
              THEN EnterWallet(step.card.wallet_addresses.v)
              ELSE UNCHANGED walletVars
    /\ sqlLog' = Append(sqlLog, [text |-> DetailSql, values |-> <<NumParam(Num(req.id))>>])
    /\ UNCHANGED <<dbVars, hits, req, listVars, served, seenFunding, wroteSinceCount>>

\* const walletInfo = await fetchWalletInfo(...): [threw, value].  The loop of
\* fetchWalletInfo catches whatever a lookup throws, so the call returns
WalletCall == [threw |-> FALSE, value |-> WalletInfo]

\* DetailBody with a fault: the error marker is added whenever a lookup failed
DetailBodyBoth(c, call) ==
    IF \E i \in 1..Len(call.value.addresses) : "error" \in DOMAIN call.value.addresses[i]
    THEN Spread(Spread(c, "wallet_info", call.value),
                "wallet_info_error", "Failed to retrieve wallet info")
    ELSE Spread(c, "wallet_info", call.value)

\* res.json({ ...card, wallet_info }) or, in the catch, wallet_info_error
DetailBody(c, call) ==
    IF call.threw
    THEN Spread(c, "wallet_info_error", "Failed to retrieve wallet info")
    ELSE Spread(c, "wallet_info", call.value)

DetailWalletInfo ==
    /\ pc = "wallet_loop"
    /\ idx > Len(addresses)
    /\ req.route = "card"
    /\ res' = Json(res, 200, "card", DetailBody(card, WalletCall))
    /\ pc' = "done"
    /\ UNCHANGED <<dbVars, hits, req, listVars, card, walletVars, histVars>>

----------------------------------------------------------------------------
(* GET /api/v1/cards, lines 238-338: parameters and query construction *)

DefaultPage == 1
DefaultPerPage == 10
MaxPerPage == 100

\* x || d on numbers: NaN and 0 are falsy
OrElse(x, d) == IF x.nan \/ x.v = 0 THEN Num(d) ELSE x

\* Math.min(x, m), x a number that is not NaN
MinNum(x, m) == Num(Min(x.v, m))

\* const { page = 1 } = req.query; parseInt(page, 10)
PageOf(q) == IF Has(q, "page") THEN parseInt(q.page) ELSE Num(DefaultPage)

\* const { per_page = 10 } = req.query; parseInt(per_page, 10)
PerPageOf(q) == IF Has(q, "per_page") THEN parseInt(q.per_page) ELSE Num(DefaultPerPage)

\* const limit = Math.min(parseInt(per_page, 10) || 10, 100)
LimitOf(q) == MinNum(OrElse(PerPageOf(q), DefaultPerPage), MaxPerPage)

\* const offset = (parseInt(page, 10) - 1) * limit
OffsetOf(q) ==
    LET pg == PageOf(q)
        lim == LimitOf(q)
    IN IF pg.nan \/ lim.nan THEN NaN ELSE Num((pg.v - 1) * lim.v)

validSortBy == {"last_updated", "priority", "percent_funded", "date"}
validSortDir == {"asc", "desc"}

\* sortBySafe with a fault: sort_by goes into the text without the allow-list
sortByUnchecked(q) ==
    IF Has(q, "sort_by") THEN q.sort_by ELSE "last_updated"

\* validSortBy.includes(sort_by) ? sort_by : 'last_updated', lines 253-254
sortBySafe(q) ==
    IF Has(q, "sort_by") /\ q.sort_by \in validSortBy THEN q.sort_by ELSE "last_updated"
sortDirSafe(q) ==
    IF Has(q, "sort_dir") /\ q.sort_dir \in validSortDir THEN q.sort_dir ELSE "desc"

FilterNames == <<"priority", "status", "stage", "tags">>

\* if (req.query.priority): the filter is there and not the empty string
Present(q, name) == Has(q, name) /\ q[name] # ""

\* `priority = $${idx++}`, and the array overlap for tags
ConditionText(name, n) ==
    IF name = "tags"
    THEN "tags && string_to_array($" \o ToString(n) \o ", ',')"
    ELSE name \o " = $" \o ToString(n)

\* conditions, values and idx after the first k of the four ifs
RECURSIVE Built(_, _)
Built(q, k) ==
    IF k = 0
    THEN [conditions |-> <<"visibility = 'PUBLIC'">>, values |-> <<>>, idx |-> 1]
    ELSE LET b == Built(q, k - 1)
             name == FilterNames[k]
         IN IF Present(q, name)
            THEN [conditions |-> Append(b.conditions, ConditionText(name, b.idx)),
                  values |-> Append(b.values, TextParam(q[name])),
                  idx |-> b.idx + 1]
            ELSE b

Plan(q) == Built(q, Len(FilterNames))

\* conditions.join(' AND ')
RECURSIVE Join(_, _)
Join(seq, sep) ==
    IF Len(seq) = 0 THEN ""
    ELSE IF Len(seq) = 1 THEN seq[1]
    ELSE seq[1] \o sep \o Join(Tail(seq), sep)

whereClause(q) == Join(Plan(q).conditions, " AND ")

CountSql(q) == "SELECT COUNT(*) FROM cards WHERE " \o whereClause(q)

PageSql(q) ==
    "SELECT * FROM cards WHERE " \o whereClause(q)
    \o " ORDER BY " \o sortBySafe(q) \o " " \o sortDirSafe(q)
    \o " LIMIT $" \o ToString(Plan(q).idx) \o " OFFSET $" \o ToString(Plan(q).idx + 1)

\* [...values, limit, offset]
PageValues(q, lim, off) == Plan(q).values \o <<NumParam(lim), NumParam(off)>>

----------------------------------------------------------------------------
(* The database's reading of the queries *)

\* string_to_array(text, ',')
StringToArray(t) ==
    IF t = "privacy,communication" THEN {"privacy", "communication"} ELSE {t}

\* one condition of the WHERE clause, on one row
ConditionHolds(c, values, row) ==
    \/ c = "visibility = 'PUBLIC'" /\ row.visibility = "PUBLIC"
    \/ \E n \in 1..Len(values), name \in {"priority", "status", "stage"} :
         c = ConditionText(name, n) /\ row[name] = values[n].text
    \/ \E n \in 1..Len(values) :
         /\ c = ConditionText("tags", n)
         /\ row.tags \cap StringToArray(values[n].text) # {}

Matching(table, conditions, values) ==
    { id \in DOMAIN table :
        \A i \in 1..Len(conditions) : ConditionHolds(conditions[i], values, table[id]) }

\* SELECT COUNT(*): the count comes back as text
CountText(table, conditions, values) ==
    NatText(Cardinality(Matching(table, conditions, values)))

\* the value ORDER BY compares; text columns compare as text
SortKey(row, col) ==
    IF col = "priority" THEN (IF row.priority = "HIGH" THEN 1 ELSE 2)
    ELSE row[col]

\* the orders ORDER BY col dir allows: rows with equal keys come in any order
Orderings(table, ids, col, dir) ==
    { o \in [1..Cardinality(ids) -> ids] :
        /\ \A i, j \in 1..Cardinality(ids) : i # j => o[i] # o[j]
        /\ \A i, j \in 1..Cardinality(ids) :
             i < j => IF dir = "asc"
                      THEN SortKey(table[o[i]], col) <= SortKey(table[o[j]], col)
                      ELSE SortKey(table[o[i]], col) >= SortKey(table[o[j]], col) }

\* PostgreSQL rejects a LIMIT or an OFFSET that is negative or not a number
\* (NaN is sent as the text 'NaN'): the query throws
PageQueryFails(lim, off) == lim.nan \/ off.nan \/ lim.v < 0 \/ off.v < 0

\* LIMIT lim OFFSET off of the ordered rows
PageRows(table, order, lim, off) ==
    [k \in 1..Min(lim, IF Len(order) > off THEN Len(order) - off ELSE 0)
       |-> table[order[off + k]]]

\* a numeric column comes back as text, with its 8 fractional digits
PgNumeric(x) ==
    IF x.null THEN NullText
    ELSE NatText(x.e8 \div E8) \o <<".">> \o Padded(x.e8 % E8, 8)

\* SELECT card_id, stage, funding_requested FROM card_stage_funding
SelectStageFunding(table) ==
    [i \in 1..Len(table) |->
       [card_id |-> table[i].card_id, stage |-> table[i].stage,
        funding_requested |-> PgNumeric(table[i].funding_requested)]]

----------------------------------------------------------------------------
(* GET /api/v1/cards: the in-process join *)

\* row.currency, undefined when the query did not select the column
Column(row, name) == IF Has(row, name) THEN row[name] ELSE Undefined

\* the object pushed for a row, lines 302-307
StageEntry(row) ==
    [stage |-> row.stage,
     funding_requested |-> row.funding_requested,
     currency |-> IF Falsy(Column(row, "currency")) THEN "ZEC" ELSE row.currency,
     note |-> IF Falsy(Column(row, "note")) THEN Null ELSE row.note]

\* stageFundingMap after the first n rows, lines 297-309
RECURSIVE stageFundingMap(_, _)
stageFundingMap(rows, n) ==
    IF n = 0 THEN <<>>
    ELSE LET m == stageFundingMap(rows, n - 1)
             key == rows[n].card_id
             sofar == IF key \in DOMAIN m THEN m[key] ELSE <<>>
         IN (key :> Append(sofar, StageEntry(rows[n]))) @@ m

\* StageEntries with a fault: every card gets every row
StageEntriesAll(map, id) ==
    LET RECURSIVE All(_)
        All(ks) == IF ks = {} THEN <<>>
                   ELSE LET k == CHOOSE x \in ks : \A y \in ks : x <= y
                        IN map[k] \o All(ks \ {k})
    IN All(DOMAIN map)

\* stageFundingMap[card.id] || []
StageEntries(map, id) == IF id \in DOMAIN map THEN map[id] ELSE <<>>

\* parseFloat(s.funding_requested || 0)
RequestedOf(entry) ==
    IF entry.funding_requested = NullText THEN Amount(0)
    ELSE parseFloat(entry.funding_requested)

\* stageEntries.reduce((sum, s) => sum + parseFloat(...), 0)
RECURSIVE SumRequested(_)
SumRequested(entries) ==
    IF entries = <<>> THEN Amount(0)
    ELSE AddAmount(SumRequested(SubSeq(entries, 1, Len(entries) - 1)),
                   RequestedOf(entries[Len(entries)]))

\* { ...card, stage_funding, total_funding_requested }
CardWithFunding(c, map) ==
    LET stageEntries == StageEntries(map, c.id) IN
    Spread(Spread(c, "stage_funding", stageEntries),
           "total_funding_requested", ToFixed8(SumRequested(stageEntries)))

cardsWithFunding(rows, fundingRows) ==
    LET map == stageFundingMap(fundingRows, Len(fundingRows)) IN
    [k \in 1..Len(rows) |-> CardWithFunding(rows[k], map)]

\* CeilPages with a fault: the quotient rounded down
FloorPages(rows, lim) == Num(rows.v \div lim.v)

\* Math.ceil(totalRows / limit); limit is never 0 or NaN
CeilPages(rows, lim) ==
    IF lim.v > 0 THEN Num(-((-rows.v) \div lim.v))
    ELSE Num(-(rows.v \div (-lim.v)))

ListBody(q, lim, pages, rows, fundingRows) ==
    [pagination |-> [current_page |-> PageOf(q), per_page |-> lim, total_pages |-> pages],
     cards |-> cardsWithFunding(rows, fundingRows)]

----------------------------------------------------------------------------
(* GET /api/v1/cards: the handler *)

\* app.get('/api/v1/cards', ...): the handler, up to its first await, on
\* response r
EnterList(q, r) ==
    /\ res' = SetHeader(r, CacheControl)
    /\ limit' = LimitOf(q)
    /\ offset' = OffsetOf(q)
    /\ totalRows' = Num(0)
    /\ totalPages' = Num(0)
    /\ result' = <<>>
    /\ pc' = "list_count"

\* A request for /api/v1/cards that the middleware chain passed on
GetCards(q) ==
    /\ Idle
    /\ req' = Request("c1", "GET", "cards", 0, q)
    /\ EnterList(q, PassedOn)
    /\ card' = NoCard
    /\ FreshWallet
    /\ FreshHistory
    /\ UNCHANGED <<dbVars, hits>>

\* await pool.query(`SELECT COUNT(*) ...`), lines 280-285
ListCount ==
    /\ pc = "list_count"
    /\ sqlLog' = Append(sqlLog, [text |-> CountSql(req.query), values |-> Plan(req.query).values])
    /\ \E dbOk \in BOOLEAN :
         IF dbOk
         THEN LET count == CountText(cards, Plan(req.query).conditions, Plan(req.query).values)
              IN /\ totalRows' = parseInt(count)
                 /\ totalPages' = CeilPages(parseInt(count), limit)
                 /\ pc' = "list_page"
                 /\ res' = res
         ELSE /\ res' = InternalError(res)
              /\ pc' = "done"
              /\ UNCHANGED <<totalRows, totalPages>>
    /\ UNCHANGED <<dbVars, hits, req, limit, offset, result, card, walletVars,
                   served, seenFunding, wroteSinceCount>>

\* await pool.query(`SELECT * ... LIMIT .. OFFSET ..`), lines 287-290
ListPage ==
    /\ pc = "list_page"
    /\ sqlLog' = Append(sqlLog, [text |-> PageSql(req.query),
                                 values |-> PageValues(req.query, limit, offset)])
    /\ \E dbOk \in BOOLEAN :
         IF dbOk /\ ~PageQueryFails(limit, offset)
         THEN \E order \in Orderings(cards,
                                     Matching(cards, Plan(req.query).conditions,
                                              Plan(req.query).values),
                                     sortBySafe(req.query), sortDirSafe(req.query)) :
                /\ result' = PageRows(cards, order, limit.v, offset.v)
                /\ pc' = "list_funding"
                /\ res' = res
         ELSE /\ res' = InternalError(res)
              /\ pc' = "done"
              /\ UNCHANGED result
    /\ UNCHANGED <<dbVars, hits, req, limit, offset, totalRows, totalPages, card,
                   walletVars, served, seenFunding, wroteSinceCount>>

\* await pool.query(`SELECT card_id, stage, funding_requested ...`) and the
\* response, lines 292-333
ListFunding ==
    /\ pc = "list_funding"
    /\ sqlLog' = Append(sqlLog, [text |-> "SELECT card_id, stage, funding_requested FROM card_stage_funding",
                                 values |-> <<>>])
    /\ \E dbOk \in BOOLEAN :
         IF dbOk
         THEN /\ res' = Json(res, 200, "list",
                             ListBody(req.query, limit, totalPages, result,
                                      SelectStageFunding(card_stage_funding)))
              /\ seenFunding' = card_stage_funding
         ELSE /\ res' = InternalError(res)
              /\ UNCHANGED seenFunding
    /\ pc' = "done"
    /\ UNCHANGED <<dbVars, hits, req, listVars, card, walletVars, served, wroteSinceCount>>

\* The rows an external writer may hold in card_stage_funding
Numeric(n) == [null |-> FALSE, e8 |-> n]
NullNumeric == [null |-> TRUE, e8 |-> 0]

FundingRow(id, amount, currency, note) ==
    [card_id |-> id, stage |-> StageOf(id), funding_requested |-> amount,
     currency |-> currency, note |-> note]

FundingRows ==
      { FundingRow(id, a, Null, Null) :
          id \in CardIds, a \in {Numeric(150000000), Numeric(225000000), NullNumeric} }
    \cup { FundingRow(id, Numeric(5), "USD", "memo") : id \in CardIds }

\* An external writer inserts a stage-funding row
InsertFunding(row) ==
    /\ pc # "done"
    /\ Len(card_stage_funding) < MaxFunding
    /\ card_stage_funding' = Append(card_stage_funding, row)
    /\ UNCHANGED <<cards, hits, req, pc, res, listVars, card, walletVars, histVars>>

\* An external writer deletes a stage-funding row
DeleteFunding(i) ==
    /\ pc # "done"
    /\ i \in 1..Len(card_stage_funding)
    /\ card_stage_funding' = [k \in 1..(Len(card_stage_funding) - 1) |->
                                IF k < i THEN card_stage_funding[k]
                                ELSE card_stage_funding[k + 1]]
    /\ UNCHANGED <<cards, hits, req, pc, res, listVars, card, walletVars, histVars>>

----------------------------------------------------------------------------
(* The middleware chain and the routes, lines 103-155 and 502-522 *)

RateMax == 10      \* max: 10
MaxOver == 2       \* requests of one client modelled beyond max, per window

Clients == {"c1", "c2"}
Methods == {"GET", "OPTIONS"}
Routes == {"root", "exchange-rate", "cards", "card", "funding-summary", "docs", "unknown"}

RateLimitMessage == "Too many requests, please try again later."

\* the limiter's count for a client
Hits(store, client) == IF client \in DOMAIN store THEN store[client] ELSE 0

\* res.send(text)
Send(r, status, text) == [r EXCEPT !.status = status, !.kind = "text", !.body = text]

\* A request reaches the server
Arrive(client, method, route, id, q) ==
    /\ Idle
    /\ Hits(hits, client) < RateMax + MaxOver
    /\ req' = Request(client, method, route, id, q)
    /\ res' = NoResponse
    /\ FreshLocals
    /\ pc' = "cors"
    /\ UNCHANGED <<dbVars, hits>>

\* app.use(cors()): a preflight request is answered here, any other goes on
Cors ==
    /\ pc = "cors"
    /\ IF req.method = "OPTIONS"
       THEN /\ res' = Send(SetHeader(res, AllowOrigin), 204, "")
            /\ pc' = "done"
       ELSE /\ res' = SetHeader(res, AllowOrigin)
            /\ pc' = "limiter"
    /\ UNCHANGED <<dbVars, hits, req, listVars, card, walletVars, histVars>>

\* app.use(limiter): the request is counted; past max it is answered here
Limiter ==
    /\ pc = "limiter"
    /\ hits' = (req.client :> Hits(hits, req.client) + 1) @@ hits
    /\ IF Hits(hits, req.client) + 1 > RateMax
       THEN /\ res' = Send(res, 429, RateLimitMessage)
            /\ pc' = "done"
       ELSE /\ res' = res
            /\ pc' = "version"
    /\ UNCHANGED <<dbVars, req, listVars, card, walletVars, histVars>>

\* windowMs: a client's window is over and its count starts again
WindowElapses(client) ==
    /\ client \in DOMAIN hits
    /\ hits' = [c \in DOMAIN hits \ {client} |-> hits[c]]
    /\ UNCHANGED <<dbVars, req, pc, res, listVars, card, walletVars, histVars>>

\* res.set('X-API-Version', 'v1'); next()
Version ==
    /\ pc = "version"
    /\ res' = SetHeader(res, XApiVersion)
    /\ pc' = "route"
    /\ UNCHANGED <<dbVars, hits, req, listVars, card, walletVars, histVars>>

\* The routes that answer without a query
StaticRoute ==
    /\ pc = "route"
    /\ req.route \in {"root", "exchange-rate", "docs", "unknown"}
    /\ res' = CASE req.route = "root" -> Send(res, 200, "ZDA Funding Wallet API v1 is running")
                [] req.route = "exchange-rate" ->
                     Json(SetHeader(res, CacheControl), 200, "rate", [zec_to_usd |-> 7255])
                [] req.route = "docs" -> Send(res, 200, "swagger-ui")
                [] OTHER -> Send(res, 404, "Cannot GET")
    /\ pc' = "done"
    /\ UNCHANGED <<dbVars, hits, req, listVars, card, walletVars, histVars>>

\* The router hands the request to the list handler
RouteCards ==
    /\ pc = "route"
    /\ req.route = "cards"
    /\ EnterList(req.query, res)
    /\ UNCHANGED <<dbVars, hits, req, card, walletVars, histVars>>

\* The router hands the request to the detail handler
RouteCard ==
    /\ pc = "route"
    /\ req.route = "card"
    /\ EnterDetail(res)
    /\ UNCHANGED <<dbVars, hits, req, listVars, card, walletVars, histVars>>

\* GET /api/v1/funding-summary, lines 502-520
RouteSummary ==
    /\ pc = "route"
    /\ req.route = "funding-summary"
    /\ \E dbOk \in BOOLEAN :
         res' = IF dbOk
                THEN Json(SetHeader(res, CacheControl), 200, "summary",
                          [public |-> { id \in DOMAIN cards : cards[id].visibility = "PUBLIC" }])
                ELSE InternalError(SetHeader(res, CacheControl))
    /\ pc' = "done"
    /\ UNCHANGED <<dbVars, hits, req, listVars, card, walletVars, histVars>>

----------------------------------------------------------------------------
(* Specifications *)

AddressLists ==
    UNION { [1..n -> Addresses] : n \in 0..MaxAddrs }

\* everything but the tables, as the server starts
InitServer ==
    /\ hits = <<>>
    /\ req = NoRequest
    /\ pc = "idle"
    /\ res = NoResponse
    /\ limit = Num(0) /\ offset = Num(0)
    /\ totalRows = Num(0) /\ totalPages = Num(0)
    /\ result = <<>>
    /\ card = NoCard
    /\ addresses = <<>> /\ idx = 1 /\ results = <<>>
    /\ total_balance = Amount(0)
    /\ total_received = Amount(0)
    /\ total_sent = Amount(0)
    /\ sqlLog = <<>> /\ served = <<>> /\ seenFunding = <<>>
    /\ wroteSinceCount = FALSE

Init ==
    /\ cards = <<>>
    /\ card_stage_funding = <<>>
    /\ InitServer

\* The wallet aggregator, called with every list of addresses
NextWallet ==
    \/ \E addrs \in AddressLists : CallFetchWalletInfo(addrs)
    \/ Lookup
    \/ ReturnWalletInfo
    \/ EndRequest

SpecWallet == Init /\ [][NextWallet]_vars

\* The detail endpoint, with an external writer of the cards table
NextDetail ==
    \/ \E id \in CardIds, vis \in Visibilities : InsertCard(id, vis)
    \/ \E id \in CardIds : DeleteCard(id)
    \/ \E id \in CardIds : GetCard(id)
    \/ DetailQuery
    \/ Lookup
    \/ DetailWalletInfo
    \/ EndRequest

SpecDetail == Init /\ [][NextDetail]_vars

\* the texts a client may send as page and per_page
T(a) == <<a>>
PageTexts == { <<>>, T("0"), T("1"), T("2"), <<"-", "1">>, <<"a", "b">>, <<" ", "2", "x">> }
PerPageTexts == { <<>>, T("0"), T("1"), T("2"), <<"-", "5">>, <<"a", "b">>,
                  <<"1", "0", "0">>, <<"1", "0", "1">> }

Only(name, value) == (name :> value)

PagingQueries ==
      { NoQuery }
    \cup { Only("page", p) : p \in PageTexts }
    \cup { Only("per_page", pp) : pp \in PerPageTexts }
    \cup { Only("page", p) @@ Only("per_page", pp) : p \in PageTexts, pp \in PerPageTexts }

SortingQueries ==
    { Only("sort_by", "priority") @@ Only("sort_dir", "asc"),
      Only("sort_by", "name; DROP TABLE cards") @@ Only("sort_dir", "up"),
      Only("priority", "HIGH") @@ Only("per_page", T("1")) }

\* The list endpoint's pagination, with an external writer of the cards table
NextList ==
    \/ \E id \in CardIds, vis \in Visibilities : InsertCard(id, vis)
    \/ \E id \in CardIds : DeleteCard(id)
    \/ \E q \in PagingQueries \cup SortingQueries : GetCards(q)
    \/ ListCount
    \/ ListPage
    \/ ListFunding
    \/ EndRequest

SpecList == Init /\ [][NextList]_vars

JoinQueries ==
    { NoQuery, Only("per_page", T("1")), Only("page", T("2")) @@ Only("per_page", T("1")) }

\* The list endpoint's join, with an external writer of card_stage_funding and
\* every card of the catalogue in the cards table
InitJoin ==
    /\ InitServer
    /\ card_stage_funding = <<>>
    /\ cards = [id \in CardIds |-> CardRow(id, IF id = 2 THEN "PRIVATE" ELSE "PUBLIC")]

NextJoin ==
    \/ \E row \in FundingRows : InsertFunding(row)
    \/ \E i \in 1..MaxFunding : DeleteFunding(i)
    \/ \E q \in JoinQueries : GetCards(q)
    \/ ListCount
    \/ ListPage
    \/ ListFunding
    \/ EndRequest

SpecJoin == InitJoin /\ [][NextJoin]_vars

\* The whole server, over a table of cards that is not written
InitHttp ==
    /\ InitServer
    /\ cards = [id \in CardIds |-> CardRow(id, IF id = 2 THEN "PRIVATE" ELSE "PUBLIC")]
    /\ card_stage_funding = <<FundingRow(1, Numeric(150000000), Null, Null)>>

HttpRequests ==
      { Request(c, m, r, 0, NoQuery) : c \in Clients, m \in Methods, r \in Routes \ {"card"} }
    \cup { Request(c, "GET", "card", id, NoQuery) : c \in Clients, id \in CardIds }

NextHttp ==
    \/ \E r \in HttpRequests : Arrive(r.client, r.method, r.route, r.id, r.query)
    \/ Cors
    \/ Limiter
    \/ \E c \in Clients : WindowElapses(c)
    \/ Version
    \/ StaticRoute
    \/ RouteCards
    \/ RouteCard
    \/ RouteSummary
    \/ ListCount
    \/ ListPage
    \/ ListFunding
    \/ DetailQuery
    \/ Lookup
    \/ DetailWalletInfo
    \/ EndRequest

SpecHttp == InitHttp /\ [][NextHttp]_vars

\* the values a client may send for the filters and the sort pair; "" is the
\* filter given without a value (?priority=)
PriorityValues == {"", "HIGH", "LOW' OR '1'='1"}
StatusValues == {"COMPLETED"}
StageValues == {"DESIGN"}
TagsValues == {"privacy,communication", "wallet"}

\* a parameter left out, or given with one of the values
Opt(name, given) == { NoQuery } \cup { Only(name, v) : v \in given }

SortPairs ==
    { NoQuery,
      Only("sort_by", "last_updated") @@ Only("sort_dir", "desc"),
      Only("sort_by", "priority") @@ Only("sort_dir", "asc"),
      Only("sort_by", "date"),
      Only("sort_by", "name; DROP TABLE cards") @@ Only("sort_dir", "up") }

FilterQueries ==
    { p @@ st @@ sg @@ tg @@ so @@ pg :
        p \in Opt("priority", PriorityValues), st \in Opt("status", StatusValues),
        sg \in Opt("stage", StageValues), tg \in Opt("tags", TagsValues),
        so \in SortPairs,
        pg \in { NoQuery, Only("page", T("2")) @@ Only("per_page", T("1")) } }

\* The list endpoint's query construction, over a table that is not written
NextQuery ==
    \/ Idle /\ \E q \in FilterQueries : GetCards(q)
    \/ ListCount
    \/ ListPage
    \/ ListFunding
    \/ EndRequest

SpecQuery == InitHttp /\ [][NextQuery]_vars


----------------------------------------------------------------------------
(* Claims about the wallet aggregator *)

\* The response carries everything the loop reads: the lookup succeeds
WellFormed(addr, r) ==
    /\ r.network /\ r.ok /\ r.parses
    /\ "data" \in DOMAIN r.body
    /\ addr \in DOMAIN r.body.data
    /\ {"address", "transactions"} \subseteq DOMAIN r.body.data[addr]
    /\ {"balance", "received", "sent"} \subseteq DOMAIN r.body.data[addr].address

\* The lookup fails: no response, a non-success status, a body that is not
\* JSON, or no entry, no address object or no transaction list for the address
LookupFails(addr, r) ==
    \/ ~r.network \/ ~r.ok \/ ~r.parses
    \/ "data" \notin DOMAIN r.body
    \/ addr \notin DOMAIN r.body.data
    \/ ~({"address", "transactions"} \subseteq DOMAIN r.body.data[addr])

\* The response deviates from the expected shape in any way
Deviates(addr, r) == ~WellFormed(addr, r)

IsErrorEntry(e) == DOMAIN e = {"address", "error"}

FirstTen(txs) == [k \in 1..(IF Len(txs) < 10 THEN Len(txs) ELSE 10) |-> txs[k]]

\* The entry of a lookup that succeeded: the upstream's figures over 10^8
FullEntry(addr, r) ==
    LET e == r.body.data[addr] IN
    [address |-> addr,
     balance |-> Amount(e.address.balance),
     total_received |-> Amount(e.address.received),
     total_sent |-> Amount(e.address.sent),
     transactions |-> FirstTen(e.transactions)]

\* The sum of a field over the well-formed responses among the first n lookups
RECURSIVE SumWellFormed(_, _)
SumWellFormed(field, n) ==
    IF n = 0 THEN 0
    ELSE SumWellFormed(field, n - 1)
         + (IF WellFormed(addresses[n], served[n])
            THEN served[n].body.data[addresses[n]].address[field] ELSE 0)

InWallet == pc = "wallet_loop" \/ (pc = "done" /\ req.route \in {"call", "card"})

EntriesInOrder ==
    /\ Len(results) = Len(served)
    /\ Len(results) = idx - 1
    /\ Len(results) <= Len(addresses)
    /\ \A i \in 1..Len(results) : results[i].address = addresses[i]

\* C1: fetchWalletInfo keeps one entry per address, in input order; a lookup
\* that fails leaves an entry with an error message and no balance data, one
\* that succeeds leaves its full data; a failure does not stop the lookups
\* after it (the call returns only when every address was looked up); and when
\* every lookup either failed or succeeded, each total is the sum over the
\* lookups that succeeded.
C1_PartialFailureIsolation ==
    InWallet =>
      /\ EntriesInOrder
      /\ \A i \in 1..Len(results) :
           /\ LookupFails(addresses[i], served[i]) => IsErrorEntry(results[i])
           /\ WellFormed(addresses[i], served[i])
                => results[i] = FullEntry(addresses[i], served[i])
      /\ (pc = "done" /\ res.status \in {0, 200} /\ res.kind \in {"wallet_info", "card"}
            /\ Len(addresses) > 0)
           => Len(results) = Len(addresses)
      /\ (\A i \in 1..Len(results) :
            LookupFails(addresses[i], served[i]) \/ WellFormed(addresses[i], served[i]))
           => /\ total_balance = Amount(SumWellFormed("balance", Len(results)))
              /\ total_received = Amount(SumWellFormed("received", Len(results)))
              /\ total_sent = Amount(SumWellFormed("sent", Len(results)))

\* C1's case: the call has returned, a failed lookup was followed by a
\* successful one, and the totals are those of the successful one alone
C1_Witness ==
    /\ pc = "done" /\ req.route = "call"
    /\ Len(addresses) = 2 /\ Len(results) = 2
    /\ LookupFails(addresses[1], served[1])
    /\ IsErrorEntry(results[1])
    /\ WellFormed(addresses[2], served[2])
    /\ res.body.totals.balance = Amount(150000000)
    /\ res.body.totals.total_received = Amount(250000000)

\* C2: every deviation of the upstream response from the expected shape
\* leaves an error marker for that address, and totals that are the sums over
\* the well-formed responses.
C2_DeviationIsFailure ==
    InWallet =>
      /\ \A i \in 1..Len(results) :
           Deviates(addresses[i], served[i]) => IsErrorEntry(results[i])
      /\ total_balance = Amount(SumWellFormed("balance", Len(results)))
      /\ total_received = Amount(SumWellFormed("received", Len(results)))
      /\ total_sent = Amount(SumWellFormed("sent", Len(results)))

----------------------------------------------------------------------------
(* Claims about the detail endpoint *)

NonPublic(table, id) ==
    id \notin DOMAIN table \/ table[id].visibility # "PUBLIC"

\* The tables that differ from table at most in the row of id, and in which
\* id is absent or present without being PUBLIC
Twins(table, id) ==
    LET rest == [k \in DOMAIN table \ {id} |-> table[k]] IN
    {rest} \cup { (id :> CardRow(id, v)) @@ rest : v \in Visibilities \ {"PUBLIC"} }

DetailDone == pc = "done" /\ req.route = "card"

NoLeakInvariant ==
    /\ \A id \in CardIds :
         NonPublic(cards, id) =>
           \A t \in Twins(cards, id), dbOk \in BOOLEAN :
             /\ DetailStep(t, id, dbOk, PassedOn) = DetailStep(cards, id, dbOk, PassedOn)
             /\ dbOk => /\ DetailStep(t, id, dbOk, PassedOn).res.status = 404
                        /\ DetailStep(t, id, dbOk, PassedOn).res.body = [error |-> "Not Found"]
                        /\ DetailStep(t, id, dbOk, PassedOn).pc = "done"
    /\ (DetailDone /\ res.status = 200) => res.body.visibility = "PUBLIC"
    /\ (DetailDone /\ res.status = 404) =>
         /\ res.body = [error |-> "Not Found"]
         /\ served = <<>>

NoLeakStep ==
    (pc = "detail_query" /\ pc' # "detail_query" /\ NonPublic(cards, req.id)) =>
      /\ pc' = "done"
      /\ res'.status \in {404, 500}
      /\ res'.kind = "error"
      /\ served' = <<>>
      /\ card' = NoCard

\* C8: an id that is absent and an id that is present but not PUBLIC get the
\* same response from GET /cards/{id}: 404 {error: "Not Found"} whenever the
\* query is answered (500 when it is not), with no wallet lookup; and a 200
\* response only carries a PUBLIC card.
C8_PrivateCardsDoNotLeak == []NoLeakInvariant /\ [][NoLeakStep]_vars

\* C8's case: a request for a card that is present and PRIVATE was answered 404
C8_Witness ==
    /\ DetailDone /\ res.status = 404
    /\ req.id \in DOMAIN cards
    /\ cards[req.id].visibility = "PRIVATE"
    /\ sqlLog # <<>>

WalletsNonEmpty(c) ==
    c.wallet_addresses.null = FALSE /\ c.wallet_addresses.v # <<>>

\* C9: once a PUBLIC card is found the detail endpoint answers 200 with the
\* card's own fields unchanged, whatever the lookups do; without wallet
\* addresses the body has neither wallet_info nor wallet_info_error and no
\* lookup is made; with wallet addresses it has exactly one of the two.
C9_EnrichmentNeverAborts ==
    (DetailDone /\ card # NoCard) =>
      /\ res.status = 200
      /\ res.kind = "card"
      /\ \A k \in DOMAIN card : k \in DOMAIN res.body /\ res.body[k] = card[k]
      /\ card.visibility = "PUBLIC"
      /\ IF WalletsNonEmpty(card)
         THEN /\ ("wallet_info" \in DOMAIN res.body) # ("wallet_info_error" \in DOMAIN res.body)
              /\ Len(served) = Len(card.wallet_addresses.v)
         ELSE /\ "wallet_info" \notin DOMAIN res.body
              /\ "wallet_info_error" \notin DOMAIN res.body
              /\ served = <<>>

\* C9's case: a card with two addresses, both lookups failed, answered 200
C9_Witness ==
    /\ DetailDone /\ res.status = 200
    /\ Len(card.wallet_addresses.v) = 2
    /\ \A i \in 1..2 : LookupFails(addresses[i], served[i])
    /\ "wallet_info" \in DOMAIN res.body
    /\ res.body.title = card.title

----------------------------------------------------------------------------
(* Claims about the list endpoint *)

ListRequest == req.route = "cards"
ListOk == pc = "done" /\ req.route = "cards" /\ res.status = 200

\* the page query of the request, once it was handed to pool.query
PageQueried == ListRequest /\ Len(sqlLog) >= 2
BoundLimit == sqlLog[2].values[Len(sqlLog[2].values) - 1].num
BoundOffset == sqlLog[2].values[Len(sqlLog[2].values)].num

\* page is there and is zero, negative or not a number
PageDefaulted(q) ==
    "page" \in DOMAIN q /\ (parseInt(q.page).nan \/ parseInt(q.page).v <= 0)

\* C3: for a page that is zero, negative or non-numeric the list endpoint
\* behaves as for page = 1: OFFSET is bound to 0 and current_page is 1.
C3_PageDefaultsToOne ==
    (ListRequest /\ PageDefaulted(req.query)) =>
      /\ PageQueried => BoundOffset = Num(0)
      /\ ListOk => res.body.pagination.current_page = Num(1)

\* the limit the claim gives for a per_page parameter
ExpectedLimit(q) ==
    IF "per_page" \notin DOMAIN q THEN 10
    ELSE LET n == parseInt(q.per_page) IN
         IF n.nan \/ n.v <= 0 THEN 10
         ELSE IF n.v > 100 THEN 100
         ELSE n.v

\* C4: the limit bound to LIMIT and reported as per_page lies in 1..100:
\* 100 above 100, 10 for zero, negative, non-numeric or absent, else itself.
C4_LimitClamped ==
    ListRequest =>
      /\ PageQueried => /\ ~BoundLimit.nan
                        /\ BoundLimit.v \in 1..100
                        /\ BoundLimit.v = ExpectedLimit(req.query)
      /\ ListOk => res.body.pagination.per_page = Num(ExpectedLimit(req.query))

\* ceil(n / d) for n >= 0 and d >= 1: the least k with k * d >= n
CeilOf(n, d) == CHOOSE k \in 0..n : k * d >= n /\ \A j \in 0..n : j * d >= n => k <= j

PagesAreCeil ==
    /\ limit.v >= 1
    /\ res.body.pagination.total_pages = Num(CeilOf(totalRows.v, limit.v))
    /\ totalRows.v = 0 => res.body.pagination.total_pages = Num(0)

\* C5 as stated: total_pages = ceil(total_rows / limit), and total_rows = 0
\* gives total_pages = 0 and cards = [], whatever an external writer does
\* between the count query and the page query.
C5_PagesAndEmptyList ==
    ListOk => /\ PagesAreCeil
              /\ totalRows.v = 0 => res.body.cards = <<>>

\* C5 (amended): total_pages = ceil(total_rows / limit), total_rows = 0 gives
\* total_pages = 0, and it gives cards = [] when the cards table was not
\* written between the count query and the page query.
C5_PagesAndEmptyListUnlessWritten ==
    ListOk => /\ PagesAreCeil
              /\ (totalRows.v = 0 /\ ~wroteSinceCount) => res.body.cards = <<>>

\* C5's case: three rows counted, two per page, two pages; and no write
C5_Witness ==
    /\ ListOk
    /\ totalRows = Num(3) /\ limit = Num(2)
    /\ res.body.pagination.total_pages = Num(2)
    /\ ~wroteSinceCount

\* the database-side join: the rows of the table, as the stage-funding query
\* read it, whose card_id is id
RowsOf(id) == SelectSeq(seenFunding, LAMBDA r : r.card_id = id)

RECURSIVE SumE8(_)
SumE8(rows) ==
    IF rows = <<>> THEN 0
    ELSE (IF rows[1].funding_requested.null THEN 0 ELSE rows[1].funding_requested.e8)
         + SumE8(Tail(rows))

\* text is a decimal with exactly 8 fractional digits
EightDigits(text) ==
    /\ Len(text) >= 10
    /\ text[Len(text) - 8] = "."
    /\ \A i \in 1..Len(text) : i # Len(text) - 8 => IsDigit(text[i])

SameAmount(text, numeric) ==
    IF numeric.null THEN text = NullText
    ELSE parseFloat(text) = Amount(numeric.e8)

Text375 == <<"3", ".", "7", "5", "0", "0", "0", "0", "0", "0">>
Text0 == <<"0", ".", "0", "0", "0", "0", "0", "0", "0", "0">>

\* C6: each returned card's stage_funding is the list of the rows whose
\* card_id is the card's id (their stage and amount, in the table's order, no
\* row of another card), and total_funding_requested is the sum of their
\* amounts with 8 fractional digits: "0.00000000" without rows, "3.75000000"
\* for 1.5 and 2.25.
C6_JoinIsDatabaseJoin ==
    ListOk =>
      \A k \in 1..Len(res.body.cards) :
        LET c == res.body.cards[k]
            rows == RowsOf(c.id)
        IN /\ Len(c.stage_funding) = Len(rows)
           /\ \A i \in 1..Len(rows) :
                /\ c.stage_funding[i].stage = rows[i].stage
                /\ SameAmount(c.stage_funding[i].funding_requested, rows[i].funding_requested)
           /\ EightDigits(c.total_funding_requested)
           /\ parseFloat(c.total_funding_requested) = Amount(SumE8(rows))
           /\ rows = <<>> => (c.stage_funding = <<>> /\ c.total_funding_requested = Text0)
           /\ SumE8(rows) = 375000000 => c.total_funding_requested = Text375

\* C6's case: a card with the rows 1.5 and 2.25 and a card without rows
C6_Witness ==
    /\ ListOk
    /\ \E k \in 1..Len(res.body.cards) :
         /\ Len(res.body.cards[k].stage_funding) = 2
         /\ res.body.cards[k].total_funding_requested = Text375
    /\ \E k \in 1..Len(res.body.cards) :
         /\ res.body.cards[k].stage_funding = <<>>
         /\ res.body.cards[k].total_funding_requested = Text0

\* C7: each stage_funding entry carries its row's stage, amount, currency
\* ("ZEC" only when the row has none) and note (null only when it has none).
C7_EntryCarriesRow ==
    ListOk =>
      \A k \in 1..Len(res.body.cards) :
        LET c == res.body.cards[k]
            rows == RowsOf(c.id)
        IN /\ Len(c.stage_funding) = Len(rows)
           /\ \A i \in 1..Len(rows) :
                /\ c.stage_funding[i].stage = rows[i].stage
                /\ SameAmount(c.stage_funding[i].funding_requested, rows[i].funding_requested)
                /\ c.stage_funding[i].currency =
                     (IF rows[i].currency = Null THEN "ZEC" ELSE rows[i].currency)
                /\ c.stage_funding[i].note = rows[i].note

----------------------------------------------------------------------------
(* Claims about the list endpoint's query construction *)

\* how many digits the text has from position i on
RECURSIVE DigitRun(_, _)
DigitRun(text, i) ==
    IF i <= Len(text) /\ IsDigit(SubSeq(text, i, i)) THEN 1 + DigitRun(text, i + 1) ELSE 0

\* the number written by the k digits that end at position i
RECURSIVE NumberEndingAt(_, _, _)
NumberEndingAt(text, i, k) ==
    IF k = 0 THEN 0
    ELSE 10 * NumberEndingAt(text, i - 1, k - 1) + DigitValue(SubSeq(text, i, i))

\* the positions of the $ signs of a SQL text
Dollars(text) == { i \in 1..Len(text) : SubSeq(text, i, i) = "$" }

\* the numbers of the placeholders $n of a SQL text, in the order they
\* appear; a $ without digits counts as placeholder 0
Placeholders(text) ==
    [j \in 1..Cardinality(Dollars(text)) |->
       LET i == CHOOSE p \in Dollars(text) :
                  Cardinality({ x \in Dollars(text) : x < p }) = j - 1
           k == DigitRun(text, i + 1)
       IN NumberEndingAt(text, i + k, k)]

Contains(text, part) ==
    \E i \in 1..(Len(text) - Len(part) + 1) : SubSeq(text, i, i + Len(part) - 1) = part

OneTo(n) == [i \in 1..n |-> i]

\* the filters a request gives a value for, in the order priority, status,
\* stage, tags
GivenFilters(q) ==
    SelectSeq(<<"priority", "status", "stage", "tags">>,
              LAMBDA name : name \in DOMAIN q /\ q[name] # "")

EffectiveSortBy(q) ==
    IF "sort_by" \in DOMAIN q
       /\ q.sort_by \in {"last_updated", "priority", "percent_funded", "date"}
    THEN q.sort_by ELSE "last_updated"

EffectiveSortDir(q) ==
    IF "sort_dir" \in DOMAIN q /\ q.sort_dir \in {"asc", "desc"} THEN q.sort_dir ELSE "desc"

\* what the claim lets the text depend on: the filters given and the
\* effective sort pair
Shape(q) == <<GivenFilters(q), EffectiveSortBy(q), EffectiveSortDir(q)>>

\* the k-th query of a list request is its count query (1) or page query (2)
QueryChecks(k) ==
    LET q == req.query
        text == sqlLog[k].text
        values == sqlLog[k].values
        given == GivenFilters(q)
        n == Len(values)
        shape == Shape(q)
    IN /\ Placeholders(text) = OneTo(n)
       /\ n = Len(given) + (IF k = 2 THEN 2 ELSE 0)
       /\ \A i \in 1..Len(given) :
            values[i].kind = "text" /\ values[i].text = q[given[i]]
       /\ Contains(text, " WHERE visibility = 'PUBLIC'")
       /\ k = 2 =>
            /\ values[n - 1].kind = "number" /\ values[n - 1].num = limit
            /\ values[n].kind = "number" /\ values[n].num = offset
            /\ Contains(text, " ORDER BY " \o EffectiveSortBy(q) \o " "
                               \o EffectiveSortDir(q) \o " LIMIT $")
       /\ \A q2 \in FilterQueries :
            Shape(q2) = shape => text = (IF k = 1 THEN CountSql(q2) ELSE PageSql(q2))

\* C11: the text of the count query and of the page query of a list request
\* depends only on which filters are given and on the effective sort pair
\* (sort_by if allow-listed, else last_updated; sort_dir if asc or desc, else
\* desc); filter values, limit and offset travel only as bound values; the
\* placeholders are $1..$n in order, n the number of bound values; and
\* visibility = 'PUBLIC' is always in the WHERE clause.
C11_QueriesAreParameterized ==
    ListRequest => \A k \in 1..Min(Len(sqlLog), 2) : QueryChecks(k)

\* C11's case: a page query went out for a request with three filters, one
\* of them carrying a quote, a sort column outside the allow-list, and paging
C11_Witness ==
    /\ ListOk
    /\ Has(req.query, "priority") /\ req.query.priority = "LOW' OR '1'='1"
    /\ Has(req.query, "sort_by") /\ req.query.sort_by = "name; DROP TABLE cards"
    /\ Has(req.query, "stage") /\ Has(req.query, "tags") /\ Has(req.query, "page")
    /\ Placeholders(sqlLog[2].text) = <<1, 2, 3, 4, 5>>

----------------------------------------------------------------------------
(* Claims about the middleware chain *)

\* C10: every response the server sends carries X-API-Version: v1, whichever
\* route is hit and whichever stage of the chain produces the response.
C10_EveryResponseHasVersion ==
    pc = "done" => XApiVersion \in res.headers

\* the client of the request has had its max requests counted in this window
QuotaUsed == Hits(hits, req.client) >= RateMax

\* the response the claim gives for a request over the quota: status 429 and
\* the JSON object {message: "Too many requests, please try again later."}
IsTooManyJson(r) ==
    /\ r.status = 429
    /\ r.kind # "text"
    /\ r.body = [message |-> RateLimitMessage]

\* the step answers the request
Answers == pc # "done" /\ pc' = "done"

\* the step hands the request to the middleware after the limiter
PassesOn == pc = "limiter" /\ pc' = "version"

\* a step of cors or of the limiter on the request
AtBoundary == pc \in {"cors", "limiter"} /\ pc' # pc

\* Over the quota the request goes no further than the limiter and its only
\* answer is the 429; under the quota the limiter passes it on; and the step
\* leaves the counts of the other clients alone
RateLimitStep ==
    AtBoundary =>
      /\ (QuotaUsed /\ Answers) => IsTooManyJson(res')
      /\ (QuotaUsed /\ pc = "limiter") => Answers
      /\ (~QuotaUsed /\ pc = "limiter") => PassesOn
      /\ \A c \in Clients \ {req.client} : Hits(hits', c) = Hits(hits, c)

\* C12: within a window the first 10 requests of a client address are passed
\* on to the routes; every further request of that address in the window is
\* answered with status 429 and the body {message: "Too many requests, please
\* try again later."} before any route handler or query; and the count of
\* one client never changes with another client's requests.
C12_RateLimitAtBoundary == [][RateLimitStep]_vars

====
